---------------------------- MODULE Spec2Model ----------------------------
(***************************************************************************)
(* Model of the chess backend: the rules engine of game/moves.py (piece    *)
(* destination generation, the decorator pipeline of check_move, the       *)
(* unconditional move) and the socket gateway of app/sockets.py.           *)
(***************************************************************************)
EXTENDS Integers, Sequences, FiniteSets, TLC

VARIABLES
    piece,      \* the piece an operation of the rules engine is applied to
    board,      \* the board: every square maps to a piece or to None
    end,        \* the destination handed to check_move / move
    result,     \* the value the last rules-engine call returned
    op,         \* the last operation applied ("init" before any)
    queue,      \* r_queue: the shared queue "all_players"
    pending,    \* the process-wide map from identifier to connection
    status,     \* each connection: "new", "open" or "closed"
    pc,         \* where the handler being run stands ("idle" when none is)
    last,       \* what the last received_message call did
    arrived     \* the join_queue messages received so far, in order

rulesVars == <<piece, board, end, result, op>>

socketVars == <<queue, pending, status, pc, last, arrived>>

vars == <<piece, board, end, result, op, queue, pending, status, pc, last, arrived>>

---------------------------------------------------------------------------
(* Values *)

BoardSize == 8

Coords == 0 .. (BoardSize - 1)

Squares == Coords \X Coords

player_down == "down"

player_up == "up"

Colors == {player_down, player_up}

Kinds == {"Rook", "Bishop", "Knight", "Pawn", "King", "Queen"}

\* Python's None, as a board cell
None == [kind |-> "None"]

\* Piece.__init__
Piece(kind, color, position) ==
    [kind |-> kind, color |-> color, position |-> position]

\* Python's False as a return value of check_move
PyFalse == [isset |-> FALSE, moves |-> {}]

\* a set returned by find / check_move
PySet(S) == [isset |-> TRUE, moves |-> S]

\* Python truthiness of a return value: False and the empty set are falsy
Truthy(r) == r.isset /\ r.moves # {}

\* Python's ordering of 2-tuples (lexicographic)
TupleLeq(a, b) == a[1] < b[1] \/ (a[1] = b[1] /\ a[2] <= b[2])

TupleGeq(a, b) == a[1] > b[1] \/ (a[1] = b[1] /\ a[2] >= b[2])

---------------------------------------------------------------------------
(* Geometry helpers *)

_check_range(move) ==
    /\ 0 <= move[1] /\ move[1] < BoardSize
    /\ 0 <= move[2] /\ move[2] < BoardSize

\* x / fabs(x) with the default 0 of _safe_divide: the sign of x
Sign(x) == IF x = 0 THEN 0 ELSE IF x > 0 THEN 1 ELSE -1

_diff_points(start, e) == <<Sign(start[1] - e[1]), Sign(start[2] - e[2])>>

\* _slope: the quotient dy/dx kept as the pair <<dy, dx>>; dx = 0 is "vertical"
_slope(start, e) == <<start[2] - e[2], start[1] - e[1]>>

\* _line(end, start=start) applied to the point m. The source tests
\* y - end[1] == slope * (x - end[0]) with slope = dy/dx; here both sides are
\* multiplied by dx, which is exact on integers.
_line(e, start, m) ==
    LET s == _slope(start, e) IN
    IF s[2] = 0
    THEN m[1] = e[1]
    ELSE (m[2] - e[2]) * s[2] = s[1] * (m[1] - e[1])

\* _end_point_check(diff) applied to (move, end)
_end_point_check(diff, move, e) ==
    IF -1 \in {diff[1], diff[2]}
    THEN TupleLeq(move, e)
    ELSE TupleGeq(move, e)

\* _clean_moves: args is the whole argument tuple (self, x, y) of find
_clean_moves(self, x, y, moves) ==
    {move \in moves : _check_range(move)} \ {<<self, x, y>>}

\* _filter_line applied to the moves the wrapped function returned
_filter_line(self, e, moves) ==
    LET start == self.position
        diff == _diff_points(start, e)
    IN  {move \in moves :
            /\ _line(e, start, move)
            /\ _diff_points(start, move) = diff
            /\ _end_point_check(diff, move, e)}


\* _check_blocks applied to the value the wrapped function returned
_check_blocks(moves, b) ==
    IF ~Truthy(moves)
    THEN PyFalse
    ELSE LET n == Cardinality(moves.moves)
             free == Cardinality({i \in moves.moves : b[i] = None})
         IN  IF free \notin {n, n - 1} THEN PyFalse ELSE moves

\* _check_move_found without the test of the color at the destination
_check_move_found_any_color(moves, self, e, b) ==
    IF ~Truthy(moves) THEN PyFalse
    ELSE IF e \notin moves.moves THEN PyFalse
    ELSE moves

\* _check_move_found applied to the value the wrapped function returned
_check_move_found(moves, self, e, b) ==
    LET item_at_end == b[e] IN
    IF ~Truthy(moves) THEN PyFalse
    ELSE IF e \notin moves.moves THEN PyFalse
    ELSE IF item_at_end # None /\ self.color = item_at_end.color THEN PyFalse
    ELSE moves

---------------------------------------------------------------------------
(* Destination generation: find(x, y) of each piece *)

Rook_find(self, x, y) ==
    _clean_moves(self, x, y,
        {<<x, i>> : i \in 0 .. 7} \cup {<<i, y>> : i \in 0 .. 7})

Bishop_find(self, x, y) ==
    _clean_moves(self, x, y,
        UNION {{<<x + k, y + k>>, <<x + k, y - k>>,
                <<x - k, y + k>>, <<x - k, y - k>>} : k \in 1 .. 7})

Knight_find(self, x, y) ==
    _clean_moves(self, x, y,
        ({x - 1, x + 1} \X {y - 2, y + 2}) \cup
        ({x - 2, x + 2} \X {y - 1, y + 1}))

\* Pawn.__init__: (y_initial, y_add)
Pawn_init(color) == IF color = player_down THEN <<6, -1>> ELSE <<1, 1>>

Pawn_find(self, x, y) ==
    LET y_initial == Pawn_init(self.color)[1]
        y_add == Pawn_init(self.color)[2]
    IN  _clean_moves(self, x, y,
            {<<x, y + y_add>>} \cup
            (IF y = y_initial THEN {<<x, y + y_add * 2>>} ELSE {}))

King_find(self, x, y) ==
    _clean_moves(self, x, y, {x - 1, x + 1, x} \X {y + 1, y - 1, y})

\* Queen.find: the union of the finds of the Rook and the Bishop it owns
Queen_find(self, x, y) ==
    LET rook == Piece("Rook", self.color, self.position)
        bishop == Piece("Bishop", self.color, self.position)
    IN  Bishop_find(bishop, x, y) \cup Rook_find(rook, x, y)

find(self, x, y) ==
    CASE self.kind = "Rook" -> Rook_find(self, x, y)
      [] self.kind = "Bishop" -> Bishop_find(self, x, y)
      [] self.kind = "Knight" -> Knight_find(self, x, y)
      [] self.kind = "Pawn" -> Pawn_find(self, x, y)
      [] self.kind = "King" -> King_find(self, x, y)
      [] self.kind = "Queen" -> Queen_find(self, x, y)

---------------------------------------------------------------------------
(* Legality: check_move(end, board) of each piece *)

\* the undecorated body shared by every check_move
find_here(self) == PySet(find(self, self.position[1], self.position[2]))

\* the line filter as a stage of the pipeline
filtered(self, e) == PySet(_filter_line(self, e, find_here(self).moves))

Rook_check_move(self, e, b) ==
    _check_move_found(_check_blocks(filtered(self, e), b), self, e, b)

Bishop_check_move(self, e, b) ==
    _check_move_found(_check_blocks(filtered(self, e), b), self, e, b)

Knight_check_move(self, e, b) ==
    _check_move_found(find_here(self), self, e, b)

Pawn_check_move(self, e, b) ==
    _check_blocks(_check_move_found(find_here(self), self, e, b), b)

King_check_move(self, e, b) ==
    _check_move_found(find_here(self), self, e, b)

\* Queen.check_move decorated like Rook.check_move
Queen_check_move_blocked(self, e, b) ==
    _check_move_found(_check_blocks(filtered(self, e), b), self, e, b)

Queen_check_move(self, e, b) == filtered(self, e)

check_move(self, e, b) ==
    CASE self.kind = "Rook" -> Rook_check_move(self, e, b)
      [] self.kind = "Bishop" -> Bishop_check_move(self, e, b)
      [] self.kind = "Knight" -> Knight_check_move(self, e, b)
      [] self.kind = "Pawn" -> Pawn_check_move(self, e, b)
      [] self.kind = "King" -> King_check_move(self, e, b)
      [] self.kind = "Queen" -> Queen_check_move(self, e, b)

\* Piece.move without board[self.position] = None
move_keep_origin(self, e, b) ==
    [b EXCEPT ![e] = [self EXCEPT !.position = e]]

\* Piece.move: the board after self.move(end, board); the piece written at
\* end is self with its position updated
move(self, e, b) ==
    LET vacated == [b EXCEPT ![self.position] = None]
        moved == [self EXCEPT !.position = e]
    IN  [vacated EXCEPT ![e] = moved]

---------------------------------------------------------------------------
(* The socket gateway: app/sockets.py *)

\* the largest frame received_message lets through
MaxFrame == 1000

\* the number of join_queue messages of a run
MaxMsgs == 2

\* the connections and the player identifiers of a run
Conns == {"c1", "c2"}

Ids == {"a", "b"}

\* the keys of type_funcs
type_funcs == {"join_queue", "move", "game_operation"}

\* A frame: its raw length, whether it decodes as JSON and to what, and what
\* _json.get("type") and _json.get("data") give for an object. frameType:
\* a key of type_funcs, another string, no type at all, or an unhashable
\* value. data: absent (or null), an object with an id, or an object
\* without one.
NoData == [kind |-> "absent", id |-> ""]

DataValues ==
    {NoData, [kind |-> "noid", id |-> ""]}
    \cup {[kind |-> "dict", id |-> i] : i \in Ids}

TypeValues == type_funcs \cup {"other", "absent", "unhashable"}

FrameLengths == {MaxFrame, MaxFrame + 1}

Frames ==
    {[len |-> n, json |-> j, frameType |-> "absent", data |-> NoData] :
        n \in FrameLengths, j \in {"garbage", "nonobject"}}
    \cup {[len |-> n, json |-> "object", frameType |-> t, data |-> d] :
        n \in FrameLengths, t \in TypeValues, d \in DataValues}

\* the frames of a valid join_queue message
JoinFrames ==
    {[len |-> MaxFrame, json |-> "object", frameType |-> "join_queue",
      data |-> [kind |-> "dict", id |-> i]] : i \in Ids}

\* the two close calls of received_message: close(1856, "message too long")
\* and close(reason="Input is not json"), which gives no code
CloseTooLong == [code |-> <<1856>>, reason |-> "message too long"]

CloseNotJson == [code |-> <<>>, reason |-> "Input is not json"]

\* len(message.data) > 1000
too_long(f) == f.len > MaxFrame

\* _parse_input with the test of data made before the test of the type
_parse_input_data_first(f) ==
    IF f.data = NoData THEN "No data provided"
    ELSE IF f.frameType = "unhashable" THEN "TypeError"
    ELSE IF f.frameType \notin type_funcs THEN "Unexpected type"
    ELSE "none"

\* CoolSocket._parse_input: the error it raises, or "none"
_parse_input(f) ==
    IF f.frameType = "unhashable" THEN "TypeError"
    ELSE IF f.frameType \notin type_funcs THEN "Unexpected type"
    ELSE IF f.data = NoData THEN "No data provided"
    ELSE "none"

\* CoolSocket._process_message up to the call of the handler: the error
\* raised before it, and the handler called
_process_message(f) ==
    IF f.json = "nonobject"
    THEN [raised |-> "AttributeError", handler |-> "none"]
    ELSE IF _parse_input(f) # "none"
    THEN [raised |-> _parse_input(f), handler |-> "none"]
    ELSE [raised |-> "none", handler |-> f.frameType]

\* id = data["id"] of join_queue: the error it raises, or "none"
join_queue_id(data) ==
    IF data.kind = "dict" THEN "none" ELSE "KeyError"

\* received_message with the decoding failure raised but no close call
received_message_no_close(f) ==
    LET first == IF too_long(f) THEN <<CloseTooLong>> ELSE <<>> IN
    IF f.json = "garbage"
    THEN [closes |-> first, decoded |-> FALSE,
          raised |-> "ValueError", handler |-> "none"]
    ELSE [closes |-> first, decoded |-> TRUE,
          raised |-> _process_message(f).raised,
          handler |-> _process_message(f).handler]

\* CoolSocket.received_message up to the call of the handler
received_message(f) ==
    LET first == IF too_long(f) THEN <<CloseTooLong>> ELSE <<>> IN
    IF f.json = "garbage"
    THEN [closes |-> Append(first, CloseNotJson), decoded |-> FALSE,
          raised |-> "ValueError", handler |-> "none"]
    ELSE [closes |-> first, decoded |-> TRUE,
          raised |-> _process_message(f).raised,
          handler |-> _process_message(f).handler]

\* RedisQueue.put: the identifier is appended to the named queue
RedisQueue_put(q, id) == Append(q, id)

\* pending.setdefault(id, socket): an identifier already there is kept
join_queue_record_first(p, id, socket) ==
    [i \in DOMAIN p \cup {id} |-> IF i \in DOMAIN p THEN p[i] ELSE socket]

\* pending[id] = socket
join_queue_record(p, id, socket) ==
    [i \in DOMAIN p \cup {id} |-> IF i = id THEN socket ELSE p[i]]

Idle == [at |-> "idle", conn |-> "", id |-> ""]

NoCall ==
    [conn |-> "", frame |-> [len |-> 0, json |-> "none", frameType |-> "absent", data |-> NoData],
     closes |-> <<>>, decoded |-> FALSE, raised |-> "none", handler |-> "none"]

InitSocketVars ==
    /\ queue = <<>>
    /\ pending = <<>>
    /\ status = [c \in Conns |-> "new"]
    /\ pc = Idle
    /\ last = NoCall
    /\ arrived = <<>>

\* no piece and no board exist in a run of the gateway
InitRulesVars ==
    /\ piece = None
    /\ board = <<>>
    /\ end = <<0, 0>>
    /\ result = PyFalse
    /\ op = "init"

\* CoolSocket.opened
Opened(c) ==
    /\ status[c] = "new"
    /\ status' = [status EXCEPT ![c] = "open"]
    /\ UNCHANGED <<queue, pending, pc, last, arrived>>
    /\ UNCHANGED rulesVars

\* CoolSocket.closed: the connection is gone; nothing else is touched
Closed(c) ==
    /\ status[c] = "open"
    /\ status' = [status EXCEPT ![c] = "closed"]
    /\ UNCHANGED <<queue, pending, pc, last, arrived>>
    /\ UNCHANGED rulesVars

\* CoolSocket.received_message(f) on connection c, run to its end or, for a
\* join_queue that has an id, to the point after r_queue.put(id)
Receive(c, f) ==
    /\ status[c] = "open"
    /\ pc = Idle
    /\ Len(arrived) < MaxMsgs
    /\ LET out == received_message(f)
           joins == out.handler = "join_queue"
           err == IF joins THEN join_queue_id(f.data) ELSE out.raised
       IN  /\ last' = [conn |-> c, frame |-> f, closes |-> out.closes,
                       decoded |-> out.decoded, raised |-> err,
                       handler |-> out.handler]
           /\ IF joins /\ err = "none"
              THEN /\ queue' = RedisQueue_put(queue, f.data.id)
                   /\ arrived' = Append(arrived, [id |-> f.data.id, conn |-> c])
                   /\ pc' = [at |-> "recording", conn |-> c, id |-> f.data.id]
              ELSE UNCHANGED <<queue, arrived, pc>>
    /\ UNCHANGED <<pending, status>>
    /\ UNCHANGED rulesVars

\* the last statement of join_queue: pending[id] = socket
Record ==
    /\ pc.at = "recording"
    /\ pending' = join_queue_record(pending, pc.id, pc.conn)
    /\ pc' = Idle
    /\ UNCHANGED <<queue, status, last, arrived>>
    /\ UNCHANGED rulesVars

InitSocket == InitSocketVars /\ InitRulesVars

NextSocket ==
    \/ \E c \in Conns : Opened(c)
    \/ \E c \in Conns : Closed(c)
    \/ \E c \in Conns, f \in Frames : Receive(c, f)
    \/ Record

SpecSocket == InitSocket /\ [][NextSocket]_vars

\* only valid join_queue messages and connection closes
NextJoin ==
    \/ \E c \in Conns : Opened(c)
    \/ \E c \in Conns : Closed(c)
    \/ \E c \in Conns, f \in JoinFrames : Receive(c, f)
    \/ Record

SpecJoin == InitSocket /\ [][NextJoin]_vars

---------------------------------------------------------------------------
(* The rules engine as state machines: inputs are drawn, a call is applied *)

\* the number of other pieces put on the board of a check_move call
MaxOthers == 2

EmptyBoard == [s \in Squares |-> None]

\* a board holding only the piece under test, at its own position
BoardWith(p) == [EmptyBoard EXCEPT ![p.position] = p]

Others(b) == {s \in Squares : b[s] # None /\ b[s] # piece}

\* The keys at which the pipeline of check_move(e, board) can subscript the
\* board: the destination (_check_move_found) and the candidates handed to
\* _check_blocks (line-filtered for the sliding pieces, raw for the Pawn).
\* The Queen's pipeline reads no cell; it is given the cells of the other
\* sliding pieces.
Looked(p, e) ==
    {e} \cup (CASE p.kind \in {"Rook", "Bishop", "Queen"} -> filtered(p, e).moves
                [] p.kind = "Pawn" -> find_here(p).moves
                [] OTHER -> {})

InitRules(kinds, ends) ==
    /\ piece \in {Piece(k, c, s) : k \in kinds, c \in Colors, s \in Squares}
    /\ end \in ends
    /\ board = BoardWith(piece)
    /\ result = PyFalse
    /\ op = "init"
    /\ InitSocketVars

\* another piece of either color is put on an empty square the call looks at
Place ==
    /\ op \in {"init", "place"}
    /\ Cardinality(Others(board)) < MaxOthers
    /\ \E s \in Looked(piece, end), c \in Colors :
        /\ board[s] = None
        /\ board' = [board EXCEPT ![s] = Piece("Pawn", c, s)]
    /\ op' = "place"
    /\ UNCHANGED <<piece, end, result>>
    /\ UNCHANGED socketVars

\* piece.find(*piece.position)
Find ==
    /\ op = "init"
    /\ result' = find_here(piece)
    /\ op' = "find"
    /\ UNCHANGED <<piece, board, end>>
    /\ UNCHANGED socketVars

\* the value the _filter_line wrapper of piece.check_move(end, board) returns
FilterLine ==
    /\ op = "init"
    /\ result' = filtered(piece, end)
    /\ op' = "filter_line"
    /\ UNCHANGED <<piece, board, end>>
    /\ UNCHANGED socketVars

\* piece.check_move(end, board)
CheckMove ==
    /\ op \in {"init", "place"}
    /\ result' = check_move(piece, end, board)
    /\ op' = "check_move"
    /\ UNCHANGED <<piece, board, end>>
    /\ UNCHANGED socketVars

InitFind == InitRules(Kinds, {<<0, 0>>})

NextFind == Find

SpecFind == InitFind /\ [][NextFind]_vars

InitLine == InitRules({"Rook", "Bishop", "Queen"}, Squares)

NextLine == FilterLine

SpecLine == InitLine /\ [][NextLine]_vars

InitCheck == InitRules(Kinds, Squares)

NextCheck ==
    \/ Place
    \/ CheckMove

SpecCheck == InitCheck /\ [][NextCheck]_vars

\* the pieces on the board of a run of unconditional moves
StartPieces ==
    {Piece("Rook", player_down, <<0, 7>>), Piece("Queen", player_up, <<3, 0>>)}

InitMove ==
    /\ piece = None
    /\ end = <<0, 0>>
    /\ result = PyFalse
    /\ op = "init"
    /\ board = [s \in Squares |->
                   IF \E p \in StartPieces : p.position = s
                   THEN CHOOSE p \in StartPieces : p.position = s
                   ELSE None]
    /\ InitSocketVars

\* board[s].move(e, board), for the piece standing on s
Move(s, e) ==
    /\ board[s] # None
    /\ board' = move(board[s], e, board)
    /\ op' = "move"
    /\ UNCHANGED <<piece, end, result>>
    /\ UNCHANGED socketVars

NextMove == \E s \in Squares, e \in Squares : Move(s, e)

SpecMove == InitMove /\ [][NextMove]_vars

---------------------------------------------------------------------------
(* Geometry the properties are stated with *)

Abs(n) == IF n < 0 THEN -n ELSE n

OnRookLine(s, e) == s[1] = e[1] \/ s[2] = e[2]

OnBishopLine(s, e) == Abs(s[1] - e[1]) = Abs(s[2] - e[2])

OnQueenLine(s, e) == OnRookLine(s, e) \/ OnBishopLine(s, e)

OnLineOf(kind, s, e) ==
    IF kind = "Rook" THEN OnRookLine(s, e) ELSE OnBishopLine(s, e)

Dist(s, e) ==
    IF Abs(s[1] - e[1]) > Abs(s[2] - e[2])
    THEN Abs(s[1] - e[1]) ELSE Abs(s[2] - e[2])

\* the squares from s (excluded) to e (included), for e on a line through s
Segment(s, e) ==
    {<<s[1] + k * Sign(e[1] - s[1]), s[2] + k * Sign(e[2] - s[2])>> :
        k \in 1 .. Dist(s, e)}

\* the squares strictly between s and e
Between(s, e) == Segment(s, e) \ {e}

Adjacent(s) ==
    {t \in Squares : t # s /\ Abs(t[1] - s[1]) <= 1 /\ Abs(t[2] - s[2]) <= 1}

Occupied(b) == {s \in Squares : b[s] # None}

---------------------------------------------------------------------------
(* Properties of the rules engine *)

\* C1: a Rook or Bishop move is accepted only if every square strictly
\* between start and end is empty; a Rook at (0,0) with an opposing piece at
\* (0,3) and nothing else on file 0 is accepted for (0,3) and rejected for
\* every destination beyond it.
C1_LineOfSight ==
    /\ (op = "check_move" /\ piece.kind \in {"Rook", "Bishop"} /\ Truthy(result))
        => \A s \in Between(piece.position, end) : board[s] = None
    /\ (/\ op = "check_move"
        /\ piece.kind = "Rook"
        /\ piece.position = <<0, 0>>
        /\ board[<<0, 3>>] # None
        /\ board[<<0, 3>>].color # piece.color
        /\ \A y \in (1 .. 7) \ {3} : board[<<0, y>>] = None
        /\ end[1] = 0
        /\ end[2] >= 3)
        => (Truthy(result) <=> end = <<0, 3>>)

\* C3: for every piece kind and position, find(x, y) never contains (x, y);
\* Rook.find(0, 0) is exactly the 14 other squares of rank 0 and file 0, and
\* King.find(x, y) contains only adjacent squares.
C3_OwnSquareRemoved ==
    op = "find" =>
        /\ piece.position \notin result.moves
        /\ (piece.kind = "Rook" /\ piece.position = <<0, 0>>)
            => result.moves = ({0} \X (1 .. 7)) \cup ((1 .. 7) \X {0})
        /\ piece.kind = "King" => result.moves \subseteq Adjacent(piece.position)

\* C4: a Rook, Bishop, Knight, King or Pawn move onto a square holding a
\* piece of the mover's color is rejected (False), whatever the path.
C4_SameColorRejected ==
    (/\ op = "check_move"
     /\ piece.kind \in {"Rook", "Bishop", "Knight", "King", "Pawn"}
     /\ board[end] # None
     /\ board[end].color = piece.color)
    => result = PyFalse

\* C4 happens: a Rook's destination on its line, reached over a clear path,
\* holds another piece of the Rook's color, and the move was rejected.
C4_Witness ==
    /\ op = "check_move"
    /\ piece.kind = "Rook"
    /\ end # piece.position
    /\ OnRookLine(piece.position, end)
    /\ Dist(piece.position, end) >= 2
    /\ \A s \in Between(piece.position, end) : board[s] = None
    /\ board[end] # None
    /\ board[end].color = piece.color
    /\ result = PyFalse

\* C9: for a Rook or Bishop and a destination on one of its lines, what
\* survives the line filter is exactly the segment from start (excluded) to
\* end (included), in each of the 8 directions.
C9_LineFilterExact ==
    (/\ op = "filter_line"
     /\ piece.kind \in {"Rook", "Bishop"}
     /\ end # piece.position
     /\ OnLineOf(piece.kind, piece.position, end))
    => result.moves = Segment(piece.position, end)

\* C10: Queen.check_move does not depend on the board: it returns what it
\* returns on the board without other pieces, a non-empty set for every
\* destination on the rank, file or a diagonal through the Queen and the
\* empty set for every other destination.
C10_QueenIgnoresOccupancy ==
    (op = "check_move" /\ piece.kind = "Queen")
    => /\ result = check_move(piece, end, BoardWith(piece))
       /\ result.isset
       /\ (result.moves # {}) <=> OnQueenLine(piece.position, end)

\* C10 happens: a Queen move over an occupied square onto a piece of the
\* Queen's color was accepted.
C10_Witness ==
    /\ op = "check_move"
    /\ piece.kind = "Queen"
    /\ OnQueenLine(piece.position, end)
    /\ \E s \in Between(piece.position, end) : board[s] # None
    /\ board[end] # None
    /\ board[end].color = piece.color
    /\ Truthy(result)

BoardConsistent ==
    /\ DOMAIN board = Squares
    /\ \A s \in Squares : board[s] # None => board[s].position = s

MoveEffect ==
    LET from == Occupied(board)
        to == Occupied(board') \ from
    IN  \A s \in from : \A e \in to \cup (from \ {s}) :
            Move(s, e) =>
                /\ board'[s] = None
                /\ board'[e] = [board[s] EXCEPT !.position = e]
                /\ \A t \in Squares \ {s, e} : board'[t] = board[t]

\* C5: move(end, board) of a piece at p, end # p, empties p, puts the piece
\* (its position now end) on end over any occupant and leaves every other
\* cell alone; so the board always has the 64 positions as keys and every
\* occupied cell holds a piece whose position is its key.
C5_MoveFrame == []BoardConsistent /\ [][MoveEffect]_vars

\* C5 happens: a piece has been moved onto the other one, which is gone
C5_Witness ==
    /\ op = "move"
    /\ Cardinality(Occupied(board)) = 1
    /\ \A p \in StartPieces : board[p.position] = None

---------------------------------------------------------------------------
(* Properties of the socket gateway *)

\* a step that is a received_message call for the frame last' holds
Received == \E c \in Conns : Receive(c, last'.frame)

BadObject(f) ==
    f.json = "object" /\ (f.frameType \notin type_funcs \/ f.data = NoData)

\* C2: a frame longer than 1000 bytes is answered by close(1856, "message too
\* long") and nothing else: it is not decoded, no handler is called, the
\* queue and the pending map stay as they are.
C2_TooLongStops ==
    /\ [](last.frame.len > MaxFrame =>
            /\ last.closes = <<CloseTooLong>>
            /\ ~last.decoded
            /\ last.handler = "none")
    /\ [][(last'.frame.len > MaxFrame /\ Received)
            => UNCHANGED <<queue, pending>>]_vars

\* the arrivals whose handler has run to its end
Recorded ==
    IF pc.at = "recording" THEN SubSeq(arrived, 1, Len(arrived) - 1) ELSE arrived

LastFrom(id, seq) ==
    seq[CHOOSE i \in 1 .. Len(seq) :
            seq[i].id = id /\ \A j \in (i + 1) .. Len(seq) : seq[j].id # id].conn

JoinState ==
    /\ Len(queue) = Len(arrived)
    /\ \A i \in 1 .. Len(arrived) : queue[i] = arrived[i].id
    /\ DOMAIN pending = {Recorded[i].id : i \in 1 .. Len(Recorded)}
    /\ \A id \in DOMAIN pending : pending[id] = LastFrom(id, Recorded)
    /\ pc.at = "recording" => queue[Len(queue)] = pc.id

C7_NotJson ==
    /\ []((last.frame.json = "garbage" /\ last.frame.len <= MaxFrame) =>
            /\ last.closes = <<CloseNotJson>>
            /\ last.raised = "ValueError"
            /\ last.handler = "none")
    /\ [][(last'.frame.json = "garbage" /\ last'.frame.len <= MaxFrame /\ Received)
            => UNCHANGED <<queue, pending>>]_vars

\* C7 happens: a frame of exactly 1000 bytes that is not JSON was received
C7_Witness ==
    /\ last.frame.json = "garbage"
    /\ last.frame.len = MaxFrame
    /\ last.closes = <<CloseNotJson>>
    /\ last.raised = "ValueError"

\* what holds of every object frame with an unknown type or no data, but for
\* the close calls made
BadObjectFails ==
    /\ BadObject(last.frame) =>
            /\ last.raised # "none"
            /\ last.frame.frameType \notin type_funcs
                   => last.raised \in {"Unexpected type", "TypeError"}
            /\ last.frame.frameType \in type_funcs
                   => last.raised = "No data provided"
            /\ last.handler = "none"
    /\ last.handler # "none" =>
            /\ last.frame.json = "object"
            /\ last.frame.frameType \in type_funcs
            /\ last.frame.data # NoData
            /\ last.handler = last.frame.frameType

BadObjectUnchanged ==
    (BadObject(last'.frame) /\ Received) => UNCHANGED <<queue, pending>>

\* C8 as stated: an object frame with an unknown type or no data ends in an
\* error (the type tested first), calls no handler, changes neither the queue
\* nor the pending map, and the gateway makes no close call; a handler is
\* called only for a known type with data, and it is the one of that type.
C8_Original ==
    /\ [](BadObjectFails /\ (BadObject(last.frame) => last.closes = <<>>))
    /\ [][BadObjectUnchanged]_vars

\* C8 amended: the same, the gateway making no close call but the one
\* received_message makes first for a frame longer than 1000 bytes.
C8_BadObject ==
    /\ [](/\ BadObjectFails
          /\ BadObject(last.frame) =>
                last.closes = IF last.frame.len > MaxFrame
                              THEN <<CloseTooLong>> ELSE <<>>)
    /\ [][BadObjectUnchanged]_vars

\* C8 happens: an object frame of an unknown type and without data was
\* received and raised the error of the type
C8_Witness ==
    /\ last.frame.json = "object"
    /\ last.frame.frameType = "other"
    /\ last.frame.data = NoData
    /\ last.frame.len <= MaxFrame
    /\ last.raised = "Unexpected type"
    /\ last.closes = <<>>

==========================================================================
